---- MODULE Spec2Model ----
(***************************************************************************)
(* Model of the imgshow upload path: POST /api/images/upload calling       *)
(* ImageProcessor.processImage (lib/storage/image-processor).              *)
(*                                                                         *)
(* One request is followed from the parsed form to the HTTP response.      *)
(* Each call into sharp, @vercel/blob or supabase is one step, and its     *)
(* outcome is chosen by the environment at that step.                      *)
(*                                                                         *)
(* Strings the code takes apart are kept in the parts the code looks at:   *)
(*   a file name is the sequence of its '.'-separated pieces, so that      *)
(*   filename.split('.') is the name itself;                               *)
(*   a MIME type is the sequence of its '/'-separated pieces.              *)
(***************************************************************************)
EXTENDS Integers, Sequences, FiniteSets, TLC

\* ---------------------------------------------------------------- bounds
MaxDim == 3     \* native width and height of an uploaded image: 1..MaxDim
MaxBound == 2   \* options.max_width / max_height: 0 (not given) .. MaxBound
MaxOver == 1    \* file sizes up to MAX_FILE_SIZE + MaxOver bytes

\* ------------------------------------------------------ program constants
MAX_FILE_SIZE == 33554432
SUPPORTED_FORMATS == {"jpg", "jpeg", "png", "gif", "webp", "heic", "avif", "pdf"}
QUALITY_LEVELS == [low |-> 60, medium |-> 80, high |-> 90, original |-> 100]
THUMBNAIL_SIZE == 300
THUMBNAIL_QUALITY == 80
LOW_RES_WIDTH == 800
LOW_RES_HEIGHT == 600
MIN_DENSITY == 72
SMALL_FILE_BYTES == 50000

\* ------------------------------------------------------------- the inputs
\* File names, as the pieces between the dots.
FileNames ==
    { <<"photo", "v2", "PNG">>, <<"png">>,
      <<"photo", "exe">>, <<"photo", "">>, <<"photo">> }

\* Declared MIME types, as the pieces between the slashes.
MimeTypes ==
    { <<"image", "png">>, <<"application", "pdf">>, <<"image">>,
      <<"text", "plain">>, <<"application", "pdf", "x">> }

FileSizes == MAX_FILE_SIZE .. (MAX_FILE_SIZE + MaxOver)

Files == [name : FileNames, type : MimeTypes, size : FileSizes]

\* UploadOptions.  A number that is not given is 0: every use of max_width,
\* max_height, quality and auto_delete_minutes in the code is a truthiness
\* test, under which undefined and 0 take the same branch.
Qualities == {0, 25}
Options ==
    [max_width : 0 .. MaxBound, max_height : 0 .. MaxBound,
     quality : Qualities, convert_to_webp : {"undefined", "false"},
     auto_delete_minutes : {0, 5}, is_public : {"undefined", "false"},
     password : {"undefined"}, album_id : {"undefined"},
     tags : {"undefined"}]

\* Date.now() when the record is assembled, in milliseconds.
Times == {1000}

FileIds == {"uuid-a"}

\* Byte lengths an encoded primary artifact and a thumbnail can have, and the
\* densities sharp can report (0: none).
BufferLengths == {SMALL_FILE_BYTES - 1, SMALL_FILE_BYTES}
ThumbnailLengths == {SMALL_FILE_BYTES - 2}
Densities == {0, MIN_DENSITY - 1}

\* Page (frame) counts sharp can report for an upload.
Pages == {1, 2}

\* String.prototype.toLowerCase on the pieces that occur.
toLowerCase(s) ==
    CASE s = "PNG" -> "png"
      [] OTHER -> s

Max(a, b) == IF a >= b THEN a ELSE b
Abs(a) == IF a >= 0 THEN a ELSE -a
\* Math.round(a / b) for a >= 0, b > 0
RoundDiv(a, b) == (2 * a + b) \div (2 * b)

\* ------------------------------------------------ ImageProcessor, the pure part
\* filename.split('.').pop()?.toLowerCase() || ''
getFileExtension(filename) == toLowerCase(filename[Len(filename)])

\* file.type.startsWith('image/')
startsWithImage(type) == Len(type) >= 2 /\ type[1] = "image"

\* validateFile with the format check moved in front of the size check.
validateFile_formatFirst(f) ==
    IF toLowerCase(getFileExtension(f.name)) \notin SUPPORTED_FORMATS
    THEN "UnsupportedFormat"
    ELSE IF f.size > MAX_FILE_SIZE
    THEN "PayloadTooLarge"
    ELSE IF ~startsWithImage(f.type) /\ f.type # <<"application", "pdf">>
    THEN "TypeMismatch"
    ELSE "none"

\* validateFile with the MIME check moved in front of the format check.
validateFile_typeFirst(f) ==
    IF f.size > MAX_FILE_SIZE
    THEN "PayloadTooLarge"
    ELSE IF ~startsWithImage(f.type) /\ f.type # <<"application", "pdf">>
    THEN "TypeMismatch"
    ELSE IF toLowerCase(getFileExtension(f.name)) \notin SUPPORTED_FORMATS
    THEN "UnsupportedFormat"
    ELSE "none"

\* validateFile rejecting a file of exactly MAX_FILE_SIZE bytes.
validateFile_sizeInclusive(f) ==
    IF f.size >= MAX_FILE_SIZE
    THEN "PayloadTooLarge"
    ELSE IF toLowerCase(getFileExtension(f.name)) \notin SUPPORTED_FORMATS
    THEN "UnsupportedFormat"
    ELSE IF ~startsWithImage(f.type) /\ f.type # <<"application", "pdf">>
    THEN "TypeMismatch"
    ELSE "none"

\* The checks of validateFile in the order of the code; the result is the
\* error that is thrown, "none" when the file is accepted.
validateFile(f) ==
    IF f.size > MAX_FILE_SIZE
    THEN "PayloadTooLarge"
    ELSE IF toLowerCase(getFileExtension(f.name)) \notin SUPPORTED_FORMATS
    THEN "UnsupportedFormat"
    ELSE IF ~startsWithImage(f.type) /\ f.type # <<"application", "pdf">>
    THEN "TypeMismatch"
    ELSE "none"

getQualityLevel(quality) ==
    IF quality = 0 THEN QUALITY_LEVELS.medium
    ELSE IF quality <= 30 THEN QUALITY_LEVELS.low
    ELSE IF quality <= 70 THEN QUALITY_LEVELS.medium
    ELSE IF quality <= 90 THEN QUALITY_LEVELS.high
    ELSE QUALITY_LEVELS.original

\* resizeOptions without withoutEnlargement.
resizeOptions_enlarging(opts) ==
    IF opts.max_width # 0 \/ opts.max_height # 0
    THEN << [fit |-> "inside", withoutEnlargement |-> FALSE,
             width |-> opts.max_width, height |-> opts.max_height] >>
    ELSE << >>

\* The argument of processedImage.resize(...): <<>> when resize is not called;
\* a width or height of 0 is a key that is not set.
resizeOptions(opts) ==
    IF opts.max_width # 0 \/ opts.max_height # 0
    THEN << [fit |-> "inside", withoutEnlargement |-> TRUE,
             width |-> opts.max_width, height |-> opts.max_height] >>
    ELSE << >>

\* sharp's resize of a w x h image.  fit 'inside' keeps the aspect ratio and
\* shrinks by the larger of w/width and h/height (by the one that is set);
\* withoutEnlargement keeps the shrink factor at 1 or more; 'cover' fills
\* width x height exactly.  Each axis is rounded and is at least 1 pixel.
\* The shrink factor is the fraction n/d.
resize(w, h, ro) ==
    IF ro.fit = "cover"
    THEN [width |-> ro.width, height |-> ro.height]
    ELSE
      LET byW == ro.width # 0 /\ (ro.height = 0 \/ w * ro.height >= h * ro.width)
          n0 == IF byW THEN w ELSE h
          d0 == IF byW THEN ro.width ELSE ro.height
          one == ro.withoutEnlargement /\ n0 < d0
          n == IF one THEN 1 ELSE n0
          d == IF one THEN 1 ELSE d0
      IN  [width  |-> Max(1, RoundDiv(w * d, n)),
           height |-> Max(1, RoundDiv(h * d, n))]

\* A width or height that sharp's metadata does not have is undefined; a
\* density or size that it does not have is 0, which the code's truthiness
\* tests do not tell from undefined.
undefined == 0 - 1

\* x < y of JavaScript for a number or undefined x: undefined < y is false.
lessThan(x, y) == x # undefined /\ x < y

\* calculateQualityScore with && for || in the test of the resolution.
calculateQualityScore_and(md) ==
    LET s1 == IF lessThan(md.width, LOW_RES_WIDTH) /\ lessThan(md.height, LOW_RES_HEIGHT)
              THEN 20 ELSE 0
        s2 == IF md.density # 0 /\ md.density < MIN_DENSITY THEN 15 ELSE 0
        s3 == IF md.size # 0 /\ md.size < SMALL_FILE_BYTES THEN 10 ELSE 0
        score == 100 - s1 - s2 - s3
    IN  Max(0, IF score < 100 THEN score ELSE 100)

calculateQualityScore(md) ==
    LET s1 == IF lessThan(md.width, LOW_RES_WIDTH) \/ lessThan(md.height, LOW_RES_HEIGHT)
              THEN 20 ELSE 0
        s2 == IF md.density # 0 /\ md.density < MIN_DENSITY THEN 15 ELSE 0
        s3 == IF md.size # 0 /\ md.size < SMALL_FILE_BYTES THEN 10 ELSE 0
        score == 100 - s1 - s2 - s3
    IN  Max(0, IF score < 100 THEN score ELSE 100)

\* ------------------------------------------------------ the colour palette
\* A string is the sequence of its characters.
HexDigits == << "0", "1", "2", "3", "4", "5", "6", "7",
                "8", "9", "a", "b", "c", "d", "e", "f" >>

\* n.toString(16) of a byte n.
toString16(n) ==
    IF n < 16 THEN << HexDigits[n + 1] >>
    ELSE << HexDigits[(n \div 16) + 1], HexDigits[(n % 16) + 1] >>

\* padStart without the padding.
padStart_none(str, len, fill) == str

\* str.padStart(len, fill) for a fill of one character.
padStart(str, len, fill) ==
    IF Len(str) < len
    THEN [k \in 1..(len - Len(str)) |-> fill] \o str
    ELSE str

\* `#${r.toString(16).padStart(2, '0')}${g...}${b...}`
colorOf(r, g, b) ==
    << "#" >> \o padStart(toString16(r), 2, "0")
              \o padStart(toString16(g), 2, "0")
              \o padStart(toString16(b), 2, "0")

\* The Map colors is the sequence of its entries <<key, value>> in the order of
\* insertion.  colors.get(color) || 0
get(colors, color) ==
    IF \E k \in DOMAIN colors : colors[k][1] = color
    THEN (CHOOSE e \in { colors[k] : k \in DOMAIN colors } : e[1] = color)[2]
    ELSE 0

\* colors.set(color, value): a key that is there keeps its place.
set(colors, color, value) ==
    IF \E k \in DOMAIN colors : colors[k][1] = color
    THEN [k \in DOMAIN colors |->
             IF colors[k][1] = color THEN << color, value >> ELSE colors[k]]
    ELSE Append(colors, << color, value >>)

\* sort with the comparator (a, b) => a[1] - b[1].
RECURSIVE sort_ascending(_)
sort_ascending(entries) ==
    IF entries = << >> THEN << >>
    ELSE LET sorted == sort_ascending(SubSeq(entries, 1, Len(entries) - 1))
             e == entries[Len(entries)]
             k == Cardinality({ j \in DOMAIN sorted : sorted[j][2] <= e[2] })
         IN  SubSeq(sorted, 1, k) \o << e >> \o SubSeq(sorted, k + 1, Len(sorted))

\* entries.sort((a, b) => b[1] - a[1]): Array.prototype.sort is stable, so
\* an entry goes behind every entry whose count is not lower.
RECURSIVE sort(_)
sort(entries) ==
    IF entries = << >> THEN << >>
    ELSE LET sorted == sort(SubSeq(entries, 1, Len(entries) - 1))
             e == entries[Len(entries)]
             k == Cardinality({ j \in DOMAIN sorted : sorted[j][2] >= e[2] })
         IN  SubSeq(sorted, 1, k) \o << e >> \o SubSeq(sorted, k + 1, Len(sorted))

PALETTE_SIZE == 10

\* .slice(0, end)
slice(arr, end) == SubSeq(arr, 1, IF Len(arr) < end THEN Len(arr) ELSE end)

\* What extractColorPalette returns once the loop is over.
topColors(colors) ==
    LET top == slice(sort(colors), PALETTE_SIZE)
    IN  [k \in DOMAIN top |-> top[k][1]]

BLACK == << "#", "0", "0", "0", "0", "0", "0" >>

\* getDominantColor that takes the last entry of the palette.
getDominantColor_last(colorPalette) ==
    IF colorPalette # << >> THEN colorPalette[Len(colorPalette)] ELSE BLACK

\* colorPalette[0] || '#000000': an entry of the palette is never empty.
getDominantColor(colorPalette) ==
    IF colorPalette # << >> THEN colorPalette[1] ELSE BLACK

\* --------------------------------------------------------------- the state
VARIABLES
    file,            \* the uploaded File: name, type, size
    options,         \* the parsed UploadOptions
    pc,              \* the call the request is about to make
    error,           \* the error that ended the request, "none" so far
    fileId,          \* uuidv4() of processImage, "" before it is drawn
    imageInfo,       \* sharp(buffer).metadata() of the upload, <<>> before
    processedBuffer, \* the encoded primary artifact, <<>> before
    processedImage,  \* what processImageFile returned, <<>> before
    imageUrl,        \* <<url>> of the published primary artifact
    thumbnailUrl,    \* <<url>> of the published thumbnail
    metadata,        \* <<m>>: what extractMetadata returned
    metadataFailure, \* the step of extractMetadata that threw, "none"
    result,          \* <<r>>: what processImage returned
    blobs,           \* object storage: the blobs that were put
    rows,            \* the images table
    response,        \* <<r>>: the HTTP response of POST
    stages,          \* the stages the request has completed, in order
    sharpCalls,      \* the calls into sharp so far, with their outcome
    puts,            \* the calls of put() so far, with their outcome
    calc,            \* a call of one of the pure methods taken by itself:
                     \* its arguments, its locals and what it returned
    images,          \* the images table as /api/images/[id] sees it
    requests,        \* the GET and DELETE requests of /api/images/[id]
    clock,           \* what new Date() returns to those requests
    collector,       \* an AnalyticsCollector and the page it listens to
    page             \* the state of HomePage and of a running onDrop

vars == << file, options, pc, error, fileId, imageInfo, processedBuffer,
           processedImage, imageUrl, thumbnailUrl, metadata, metadataFailure,
           result, blobs, rows, response, stages, sharpCalls, puts, calc,
           images, requests, clock, collector, page >>

\* The state of the image route, of the collector and of the page; the
\* upload request and the pure methods leave it as it is.
elsewhere == << images, requests, clock, collector, page >>

\* None of them is there.
Elsewhere ==
    /\ images = << >>
    /\ requests = << >>
    /\ clock = 0
    /\ collector = << >>
    /\ page = << >>

\* `${fileId}.${fileExtension}` and `${fileId}_thumb.webp`
filename == << fileId, getFileExtension(file.name) >>
thumbnailFilename == << fileId, "_thumb", "webp" >>

\* The address put() answers with for a path name.
blobUrl(pathname) == << "https://blob", pathname >>

\* NextResponse.json({ success: false, error }, { status: 500 })
errorResponse(message) == [status |-> 500, success |-> FALSE, error |-> message]

\* The catch block of POST: whatever is thrown inside try ends the request.
Throw(kind) ==
    /\ error' = kind
    /\ pc' = "done"
    /\ stages' = Append(stages, "Failed")
    /\ response' = << errorResponse("Internal server error") >>

\* The calls with extractMetadata moved in front of the two uploads.
after_metadataFirst(call) ==
    CASE call = "validateFile"    -> "metadata"
      [] call = "metadata"        -> "toBuffer"
      [] call = "toBuffer"        -> "createThumbnail"
      [] call = "createThumbnail" -> "extractMetadata"
      [] call = "extractMetadata" -> "uploadImage"
      [] call = "uploadImage"     -> "uploadThumbnail"
      [] call = "uploadThumbnail" -> "assemble"
      [] call = "assemble"        -> "insert"
      [] call = "insert"          -> "done"

\* The calls of processImage and POST in the order of the code: the call
\* that follows `call` when it returns normally.
after(call) ==
    CASE call = "validateFile"    -> "metadata"
      [] call = "metadata"        -> "toBuffer"
      [] call = "toBuffer"        -> "createThumbnail"
      [] call = "createThumbnail" -> "uploadImage"
      [] call = "uploadImage"     -> "uploadThumbnail"
      [] call = "uploadThumbnail" -> "extractMetadata"
      [] call = "extractMetadata" -> "assemble"
      [] call = "assemble"        -> "insert"
      [] call = "insert"          -> "done"

Init ==
    /\ file \in Files
    /\ options \in Options
    /\ pc = "validateFile"
    /\ error = "none"
    /\ fileId = ""
    /\ imageInfo = << >>
    /\ processedBuffer = << >>
    /\ processedImage = << >>
    /\ imageUrl = << >>
    /\ thumbnailUrl = << >>
    /\ metadata = << >>
    /\ metadataFailure = "none"
    /\ result = << >>
    /\ blobs = {}
    /\ rows = {}
    /\ response = << >>
    /\ stages = << "Received" >>
    /\ sharpCalls = << >>
    /\ puts = << >>
    /\ calc = [fn |-> "none"]
    /\ Elsewhere

\* POST up to the first await of processImage: validateFile, then the names.
Validate ==
    /\ pc = "validateFile"
    /\ IF validateFile(file) # "none"
       THEN /\ Throw(validateFile(file))
            /\ UNCHANGED fileId
       ELSE /\ \E id \in FileIds : fileId' = id
            /\ pc' = after(pc)
            /\ stages' = Append(stages, "Validated")
            /\ UNCHANGED << error, response >>
    /\ UNCHANGED << elsewhere, calc, file, options, imageInfo, processedBuffer, processedImage,
                    imageUrl, thumbnailUrl, metadata, metadataFailure, result,
                    blobs, rows, sharpCalls, puts >>

\* Decode with a rejected metadata() caught and 1 x 1 taken in its place.
Decode_fallback ==
    /\ pc = "metadata"
    /\ \/ /\ sharpCalls' = Append(sharpCalls, [op |-> "metadata", ok |-> FALSE])
          /\ imageInfo' = << [width |-> 1, height |-> 1, pages |-> 1] >>
       \/ /\ \E w \in 1 .. MaxDim, h \in 1 .. MaxDim, n \in Pages :
                imageInfo' = << [width |-> w, height |-> h, pages |-> n] >>
          /\ sharpCalls' = Append(sharpCalls, [op |-> "metadata", ok |-> TRUE])
    /\ pc' = after(pc)
    /\ stages' = Append(stages, "Decoded")
    /\ UNCHANGED << elsewhere, calc, file, options, error, response, fileId, processedBuffer,
                    processedImage, imageUrl, thumbnailUrl, metadata,
                    metadataFailure, result, blobs, rows, puts >>

\* processImageFile, first await: sharp(buffer).metadata() of the upload.
\* The native width and height are what the bytes hold; a buffer sharp cannot
\* read rejects.
Decode ==
    /\ pc = "metadata"
    /\ \/ /\ sharpCalls' = Append(sharpCalls, [op |-> "metadata", ok |-> FALSE])
          /\ Throw("DecodeError")
          /\ UNCHANGED imageInfo
       \/ /\ \E w \in 1 .. MaxDim, h \in 1 .. MaxDim, n \in Pages :
                imageInfo' = << [width |-> w, height |-> h, pages |-> n] >>
          /\ sharpCalls' = Append(sharpCalls, [op |-> "metadata", ok |-> TRUE])
          /\ pc' = after(pc)
          /\ stages' = Append(stages, "Decoded")
          /\ UNCHANGED << error, response >>
    /\ UNCHANGED << elsewhere, calc, file, options, fileId, processedBuffer, processedImage,
                    imageUrl, thumbnailUrl, metadata, metadataFailure, result,
                    blobs, rows, puts >>

\* The sharp pipeline of processImageFile as toBuffer() runs it: resize when
\* asked, then webp unless convert_to_webp is false (the second webp() call,
\* under options.quality, sets the same quality again).  `format` is "input"
\* when the bytes keep the format of the upload.  sharp(buffer) is built
\* without `animated`, so it reads the first page only: the result has one
\* page.  `of` is the raster that was read.
encode(info, opts, length) ==
    LET ro == resizeOptions(opts)
        dims == IF Len(ro) > 0 THEN resize(info.width, info.height, ro[1])
                ELSE [width |-> info.width, height |-> info.height]
        webp1 == opts.convert_to_webp # "false"
        webp2 == opts.quality # 0 /\ opts.convert_to_webp # "false"
    IN  [width |-> dims.width, height |-> dims.height,
         resized |-> Len(ro) > 0,
         format |-> IF webp1 \/ webp2 THEN "webp" ELSE "input",
         quality |-> IF webp1 \/ webp2 THEN getQualityLevel(opts.quality) ELSE 0,
         pages |-> 1,
         of |-> [width |-> info.width, height |-> info.height],
         length |-> length]

\* processImageFile, second await: processedImage.toBuffer().
Transform ==
    /\ pc = "toBuffer"
    /\ \/ /\ sharpCalls' = Append(sharpCalls, [op |-> "toBuffer", ok |-> FALSE])
          /\ Throw("DecodeError")
          /\ UNCHANGED processedBuffer
       \/ /\ \E length \in BufferLengths :
                processedBuffer' = << encode(imageInfo[1], options, length) >>
          /\ sharpCalls' = Append(sharpCalls, [op |-> "toBuffer", ok |-> TRUE])
          /\ pc' = after(pc)
          /\ stages' = Append(stages, "Transformed")
          /\ UNCHANGED << error, response >>
    /\ UNCHANGED << elsewhere, calc, file, options, fileId, imageInfo, processedImage,
                    imageUrl, thumbnailUrl, metadata, metadataFailure, result,
                    blobs, rows, puts >>

\* createThumbnail with fit 'inside' in place of 'cover'.
createThumbnail_inside(info, length) ==
    LET dims == resize(info.width, info.height,
                       [fit |-> "inside", withoutEnlargement |-> FALSE,
                        width |-> THUMBNAIL_SIZE, height |-> THUMBNAIL_SIZE])
    IN  [buffer |-> [width |-> dims.width, height |-> dims.height,
                     resized |-> TRUE, format |-> "webp",
                     quality |-> THUMBNAIL_QUALITY,
                     pages |-> 1,
                     of |-> [width |-> info.width, height |-> info.height],
                     length |-> length],
         width |-> dims.width, height |-> dims.height]

\* createThumbnail(buffer): a 300 x 300 cover crop of the upload, webp at 80.
createThumbnail(info, length) ==
    LET dims == resize(info.width, info.height,
                       [fit |-> "cover", withoutEnlargement |-> FALSE,
                        width |-> THUMBNAIL_SIZE, height |-> THUMBNAIL_SIZE])
    IN  [buffer |-> [width |-> dims.width, height |-> dims.height,
                     resized |-> TRUE, format |-> "webp",
                     quality |-> THUMBNAIL_QUALITY,
                     pages |-> 1,
                     of |-> [width |-> info.width, height |-> info.height],
                     length |-> length],
         width |-> dims.width, height |-> dims.height]

\* processImageFile, third await, and its return value: width and height are
\* those of imageInfo.
CreateThumbnail ==
    /\ pc = "createThumbnail"
    /\ \/ /\ sharpCalls' = Append(sharpCalls, [op |-> "thumbnail", ok |-> FALSE])
          /\ Throw("DecodeError")
          /\ UNCHANGED processedImage
       \/ /\ \E length \in ThumbnailLengths :
                LET thumbnail == createThumbnail(imageInfo[1], length)
                IN  processedImage' =
                      << [buffer |-> processedBuffer[1],
                          width |-> imageInfo[1].width,
                          height |-> imageInfo[1].height,
                          thumbnail |-> << thumbnail.buffer >>,
                          thumbnailWidth |-> thumbnail.width,
                          thumbnailHeight |-> thumbnail.height] >>
          /\ sharpCalls' = Append(sharpCalls, [op |-> "thumbnail", ok |-> TRUE])
          /\ pc' = after(pc)
          /\ stages' = Append(stages, "ThumbnailCreated")
          /\ UNCHANGED << error, response >>
    /\ UNCHANGED << elsewhere, calc, file, options, fileId, imageInfo, processedBuffer,
                    imageUrl, thumbnailUrl, metadata, metadataFailure, result,
                    blobs, rows, puts >>

\* UploadImage with one more attempt after a first rejected put().
UploadImage_retry ==
    /\ pc = "uploadImage"
    /\ \/ /\ puts' = Append(puts, [pathname |-> filename, ok |-> FALSE])
          /\ IF Len(puts) = 0
             THEN UNCHANGED << pc, stages, error, response >>
             ELSE Throw("PublishError")
          /\ UNCHANGED << blobs, imageUrl >>
       \/ /\ puts' = Append(puts, [pathname |-> filename, ok |-> TRUE])
          /\ blobs' = blobs \cup { [pathname |-> filename,
                                    url |-> blobUrl(filename),
                                    contentType |-> file.type,
                                    body |-> processedImage[1].buffer] }
          /\ imageUrl' = << blobUrl(filename) >>
          /\ pc' = after(pc)
          /\ stages' = Append(stages, "PrimaryPublished")
          /\ UNCHANGED << error, response >>
    /\ UNCHANGED << elsewhere, calc, file, options, fileId, imageInfo, processedBuffer,
                    processedImage, thumbnailUrl, metadata, metadataFailure,
                    result, rows, sharpCalls >>

\* uploadToBlob(processedImage.buffer, filename, file.type)
UploadImage ==
    /\ pc = "uploadImage"
    /\ \/ /\ puts' = Append(puts, [pathname |-> filename, ok |-> FALSE])
          /\ Throw("PublishError")
          /\ UNCHANGED << blobs, imageUrl >>
       \/ /\ puts' = Append(puts, [pathname |-> filename, ok |-> TRUE])
          /\ blobs' = blobs \cup { [pathname |-> filename,
                                    url |-> blobUrl(filename),
                                    contentType |-> file.type,
                                    body |-> processedImage[1].buffer] }
          /\ imageUrl' = << blobUrl(filename) >>
          /\ pc' = after(pc)
          /\ stages' = Append(stages, "PrimaryPublished")
          /\ UNCHANGED << error, response >>
    /\ UNCHANGED << elsewhere, calc, file, options, fileId, imageInfo, processedBuffer,
                    processedImage, thumbnailUrl, metadata, metadataFailure,
                    result, rows, sharpCalls >>

\* UploadThumbnail with a rejected put() caught and the thumbnail left out.
UploadThumbnail_swallow ==
    /\ pc = "uploadThumbnail"
    /\ \/ /\ puts' = Append(puts, [pathname |-> thumbnailFilename, ok |-> FALSE])
          /\ UNCHANGED << blobs, thumbnailUrl, stages >>
       \/ /\ puts' = Append(puts, [pathname |-> thumbnailFilename, ok |-> TRUE])
          /\ blobs' = blobs \cup { [pathname |-> thumbnailFilename,
                                    url |-> blobUrl(thumbnailFilename),
                                    contentType |-> << "image", "webp" >>,
                                    body |-> processedImage[1].thumbnail[1]] }
          /\ thumbnailUrl' = << blobUrl(thumbnailFilename) >>
          /\ stages' = Append(stages, "ThumbnailPublished")
    /\ pc' = after(pc)
    /\ UNCHANGED << elsewhere, calc, file, options, error, fileId, imageInfo, processedBuffer,
                    processedImage, imageUrl, metadata, metadataFailure,
                    result, rows, response, sharpCalls >>

\* processedImage.thumbnail ? uploadToBlob(thumbnail, thumbnailFilename,
\* 'image/webp') : undefined
UploadThumbnail ==
    /\ pc = "uploadThumbnail"
    /\ IF Len(processedImage[1].thumbnail) > 0
       THEN \/ /\ puts' = Append(puts, [pathname |-> thumbnailFilename, ok |-> FALSE])
               /\ Throw("PublishError")
               /\ UNCHANGED << blobs, thumbnailUrl >>
            \/ /\ puts' = Append(puts, [pathname |-> thumbnailFilename, ok |-> TRUE])
               /\ blobs' = blobs \cup { [pathname |-> thumbnailFilename,
                                         url |-> blobUrl(thumbnailFilename),
                                         contentType |-> << "image", "webp" >>,
                                         body |-> processedImage[1].thumbnail[1]] }
               /\ thumbnailUrl' = << blobUrl(thumbnailFilename) >>
               /\ pc' = after(pc)
               /\ stages' = Append(stages, "ThumbnailPublished")
               /\ UNCHANGED << error, response >>
       ELSE /\ pc' = after(pc)
            /\ UNCHANGED << puts, blobs, thumbnailUrl, stages, error, response >>
    /\ UNCHANGED << elsewhere, calc, file, options, fileId, imageInfo, processedBuffer,
                    processedImage, imageUrl, metadata, metadataFailure,
                    result, rows, sharpCalls >>

\* The steps of extractMetadata's try block that can throw: the two sharp
\* calls, and the computation of palette, tags and score that follows them.
ExtractSteps == {"metadata", "raw", "compute"}

\* extractMetadata(processedImage.buffer, file): sharp's metadata of the
\* primary artifact, is_animated from its page count and the score computed
\* from it; {} when a step throws.
extractMetadata(buffer, density, failure) ==
    IF failure # "none"
    THEN << >>
    ELSE [is_animated |-> IF buffer.pages # 0 THEN buffer.pages > 1 ELSE FALSE,
          quality_score |->
            calculateQualityScore([width |-> buffer.width, height |-> buffer.height,
                                   density |-> density, size |-> buffer.length])]

\* ExtractMetadata without the catch: a step that throws ends the request.
ExtractMetadata_rethrow ==
    /\ pc = "extractMetadata"
    /\ \E failure \in ExtractSteps \cup {"none"}, density \in Densities :
          /\ metadataFailure' = failure
          /\ sharpCalls' = Append(sharpCalls,
                                  [op |-> "extract", ok |-> failure \notin {"metadata", "raw"}])
          /\ IF failure # "none"
             THEN /\ Throw("MetadataError")
                  /\ UNCHANGED metadata
             ELSE /\ metadata' = << extractMetadata(processedImage[1].buffer, density, failure) >>
                  /\ pc' = after(pc)
                  /\ stages' = Append(stages, "MetadataExtracted")
                  /\ UNCHANGED << error, response >>
    /\ UNCHANGED << elsewhere, calc, file, options, fileId, imageInfo, processedBuffer,
                    processedImage, imageUrl, thumbnailUrl, result, blobs,
                    rows, puts >>

ExtractMetadata ==
    /\ pc = "extractMetadata"
    /\ \E failure \in ExtractSteps \cup {"none"}, density \in Densities :
          /\ metadataFailure' = failure
          /\ metadata' = << extractMetadata(processedImage[1].buffer, density, failure) >>
          /\ sharpCalls' = Append(sharpCalls,
                                  [op |-> "extract", ok |-> failure \notin {"metadata", "raw"}])
    /\ pc' = after(pc)
    /\ stages' = Append(stages, "MetadataExtracted")
    /\ UNCHANGED << elsewhere, calc, file, options, error, fileId, imageInfo, processedBuffer,
                    processedImage, imageUrl, thumbnailUrl, result, blobs,
                    rows, response, puts >>

\* imageRecord with the minutes taken for seconds.
imageRecord_seconds(now) ==
    [id |-> fileId,
     user_id |-> "",
     filename |-> filename,
     original_name |-> file.name,
     mime_type |-> file.type,
     size |-> file.size,
     width |-> processedImage[1].width,
     height |-> processedImage[1].height,
     url |-> imageUrl,
     thumbnail_url |-> thumbnailUrl,
     is_public |-> IF options.is_public = "undefined" THEN "true"
                   ELSE options.is_public,
     password |-> options.password,
     album_id |-> options.album_id,
     auto_delete_at |-> IF options.auto_delete_minutes # 0
                        THEN << now + options.auto_delete_minutes * 1000 >>
                        ELSE << >>,
     created_at |-> now,
     updated_at |-> now,
     view_count |-> 0,
     download_count |-> 0,
     tags |-> IF options.tags = "undefined" THEN << >> ELSE options.tags,
     metadata |-> metadata[1]]

\* The Image record of processImage and the record of its thumbnail.
imageRecord(now) ==
    [id |-> fileId,
     user_id |-> "",
     filename |-> filename,
     original_name |-> file.name,
     mime_type |-> file.type,
     size |-> file.size,
     width |-> processedImage[1].width,
     height |-> processedImage[1].height,
     url |-> imageUrl,
     thumbnail_url |-> thumbnailUrl,
     is_public |-> IF options.is_public = "undefined" THEN "true"
                   ELSE options.is_public,
     password |-> options.password,
     album_id |-> options.album_id,
     auto_delete_at |-> IF options.auto_delete_minutes # 0
                        THEN << now + options.auto_delete_minutes * 60 * 1000 >>
                        ELSE << >>,
     created_at |-> now,
     updated_at |-> now,
     view_count |-> 0,
     download_count |-> 0,
     tags |-> IF options.tags = "undefined" THEN << >> ELSE options.tags,
     metadata |-> metadata[1]]

thumbnailRecord(now) ==
    [id |-> << fileId, "_thumb" >>,
     user_id |-> "",
     filename |-> thumbnailFilename,
     original_name |-> << file.name, "_thumbnail" >>,
     mime_type |-> << "image", "webp" >>,
     size |-> processedImage[1].thumbnail[1].length,
     width |-> processedImage[1].thumbnailWidth,
     height |-> processedImage[1].thumbnailHeight,
     url |-> thumbnailUrl,
     is_public |-> IF options.is_public = "undefined" THEN "true"
                   ELSE options.is_public,
     created_at |-> now,
     updated_at |-> now,
     view_count |-> 0,
     download_count |-> 0,
     tags |-> << >>,
     metadata |-> << >>]

\* processImage from the end of extractMetadata to its return.
Assemble ==
    /\ pc = "assemble"
    /\ \E now \in Times :
          result' = << [image |-> imageRecord(now),
                        thumbnail |-> IF Len(processedImage[1].thumbnail) > 0
                                      THEN << thumbnailRecord(now) >> ELSE << >>] >>
    /\ pc' = after(pc)
    /\ stages' = Append(stages, "Assembled")
    /\ UNCHANGED << elsewhere, calc, file, options, error, fileId, imageInfo, processedBuffer,
                    processedImage, imageUrl, thumbnailUrl, metadata,
                    metadataFailure, blobs, rows, response, sharpCalls, puts >>

\* `imageData` is bound nowhere in POST nor in its module: evaluating
\* imageData.auto_delete_at throws a ReferenceError.
imageDataIsBound == FALSE

\* POST after processImage returned: the insert, and what follows it.
Insert ==
    /\ pc = "insert"
    /\ \E now \in Times :
       LET row == [result[1].image EXCEPT !.user_id = "anonymous",
                                          !.created_at = now, !.updated_at = now]
       IN  \/ /\ error' = "DatabaseError"
              /\ response' = << errorResponse("Failed to save image data") >>
              /\ UNCHANGED rows
           \/ /\ rows' = rows \cup {row}
              /\ IF imageDataIsBound
                 THEN /\ response' = << [status |-> 200, success |-> TRUE, data |-> row] >>
                      /\ UNCHANGED error
                 ELSE /\ error' = "ReferenceError"
                      /\ response' = << errorResponse("Internal server error") >>
    /\ pc' = after(pc)
    /\ UNCHANGED << elsewhere, calc, file, options, fileId, imageInfo, processedBuffer,
                    processedImage, imageUrl, thumbnailUrl, metadata,
                    metadataFailure, result, blobs, stages, sharpCalls, puts >>

Next ==
    \/ Validate
    \/ Decode
    \/ Transform
    \/ CreateThumbnail
    \/ UploadImage
    \/ UploadThumbnail
    \/ ExtractMetadata
    \/ Assemble
    \/ Insert

Spec == Init /\ [][Next]_vars

\* ------------------------------------------- the pure methods by themselves
\* getQualityLevel, calculateQualityScore and extractColorPalette followed by
\* getDominantColor (as in extractMetadata), each called on arguments of its own.
pipeline == << file, options, pc, error, fileId, imageInfo, processedBuffer,
               processedImage, imageUrl, thumbnailUrl, metadata, metadataFailure,
               result, blobs, rows, response, stages, sharpCalls, puts >>

MaxSamples == 12   \* pixels that the loop of extractColorPalette samples

\* quality?: number -- <<>> when the argument is not given.
RequestedQualities == { << >> } \cup { << q >> : q \in 0..100 }

\* The fields of sharp's metadata that calculateQualityScore reads.
Metadatas ==
    [width   : {undefined, 1, LOW_RES_WIDTH - 1, LOW_RES_WIDTH},
     height  : {undefined, 1, LOW_RES_HEIGHT - 1, LOW_RES_HEIGHT},
     density : {0, 1, MIN_DENSITY - 1, MIN_DENSITY},
     size    : {0, 1, SMALL_FILE_BYTES - 1, SMALL_FILE_BYTES}]

step == 4
ALPHA_MIN == 128

\* data.length of a raw buffer: 150 x 150 pixels of 1 to 4 channels are a
\* multiple of step * 10 bytes or step * 5 bytes short of one, so the four
\* bytes of every sample are there.
DataLengths ==
    { step * 10 * n - short : n \in 1..MaxSamples, short \in {0, step * 5} }

\* info.channels of the raw buffer is 3 for an opaque image and 4 for one
\* with alpha; the loop does not read it and goes through either buffer in
\* the same way, so a few samples of a 3-channel buffer show where it reads.
Rasters ==
    { [channels |-> 4, length |-> n] : n \in DataLengths }
        \cup { [channels |-> 3, length |-> n] :
                    n \in { l \in DataLengths : l <= 3 * step * 10 } }

\* The bytes of data are read when the loop gets to them.  The colours are
\* told apart by the order in which they first come: the j-th new colour
\* is Color(j); its r has one hex digit, its g and b have one or two.
Color(j) == << j % 256, (17 * j) % 256, (255 - j) % 256 >>

Pixels(seen) ==
    { [rgb |-> c, a |-> a] :
          c \in { seen[k] : k \in DOMAIN seen } \cup { Color(Len(seen) + 1) },
          a \in { ALPHA_MIN - 1, ALPHA_MIN } }

CalcInit ==
    /\ file = CHOOSE f \in Files : TRUE
    /\ options = CHOOSE o \in Options : TRUE
    /\ pc = "none"
    /\ error = "none"
    /\ fileId = ""
    /\ imageInfo = << >>
    /\ processedBuffer = << >>
    /\ processedImage = << >>
    /\ imageUrl = << >>
    /\ thumbnailUrl = << >>
    /\ metadata = << >>
    /\ metadataFailure = "none"
    /\ result = << >>
    /\ blobs = {}
    /\ rows = {}
    /\ response = << >>
    /\ stages = << >>
    /\ sharpCalls = << >>
    /\ puts = << >>
    /\ Elsewhere
    /\ \/ \E q \in RequestedQualities :
              calc = [fn |-> "getQualityLevel", quality |-> q, returned |-> << >>]
       \/ \E md \in Metadatas :
              calc = [fn |-> "calculateQualityScore", metadata |-> md,
                      returned |-> << >>]
       \/ \E raster \in Rasters :
              calc = [fn |-> "extractColorPalette", length |-> raster.length,
                      channels |-> raster.channels, i |-> 0,
                      colors |-> << >>, returned |-> << >>, dominant |-> << >>,
                      \* the last sample: where it was read, the byte that
                      \* was taken for its alpha, whether it was counted
                      last |-> << >>,
                      \* what the loop has read: the colours of the opaque
                      \* samples in the order they first came, and how often
                      seen |-> << >>, freq |-> << >>, sampled |-> 0]

\* getQualityLevel(quality): !quality holds of undefined and of 0 alike.
GetQualityLevel ==
    /\ calc.fn = "getQualityLevel"
    /\ calc.returned = << >>
    /\ calc' = [calc EXCEPT !.returned =
                   << getQualityLevel(IF calc.quality = << >> THEN 0
                                      ELSE calc.quality[1]) >>]
    /\ UNCHANGED << elsewhere, pipeline >>

CalculateQualityScore ==
    /\ calc.fn = "calculateQualityScore"
    /\ calc.returned = << >>
    /\ calc' = [calc EXCEPT !.returned = << calculateQualityScore(calc.metadata) >>]
    /\ UNCHANGED << elsewhere, pipeline >>

\* One turn of the loop of extractColorPalette.
Sample ==
    /\ calc.fn = "extractColorPalette"
    /\ calc.returned = << >>
    /\ calc.i < calc.length
    /\ \E px \in Pixels(calc.seen) :
          LET r == px.rgb[1]
              g == px.rgb[2]
              b == px.rgb[3]
              color == colorOf(r, g, b)
              new == \A k \in DOMAIN calc.seen : calc.seen[k] # px.rgb
          IN  IF px.a < ALPHA_MIN
              THEN calc' = [calc EXCEPT !.i = @ + step * 10, !.sampled = @ + 1,
                       !.last = << [at |-> calc.i, a |-> px.a, counted |-> FALSE] >>]
              ELSE calc' = [calc EXCEPT
                       !.i = @ + step * 10,
                       !.sampled = @ + 1,
                       !.last = << [at |-> calc.i, a |-> px.a, counted |-> TRUE] >>,
                       !.colors = set(@, color, get(@, color) + 1),
                       !.seen = IF new THEN Append(@, px.rgb) ELSE @,
                       !.freq = IF new THEN Append(@, 1)
                                ELSE [k \in DOMAIN @ |->
                                        IF calc.seen[k] = px.rgb THEN @[k] + 1
                                        ELSE @[k]]]
    /\ UNCHANGED << elsewhere, pipeline >>

\* The loop is over: sort, slice, map, return.
ReturnPalette ==
    /\ calc.fn = "extractColorPalette"
    /\ calc.returned = << >>
    /\ ~(calc.i < calc.length)
    /\ calc' = [calc EXCEPT !.returned = << topColors(calc.colors) >>]
    /\ UNCHANGED << elsewhere, pipeline >>

\* const dominantColor = this.getDominantColor(colorPalette)
GetDominantColor ==
    /\ calc.fn = "extractColorPalette"
    /\ calc.returned # << >>
    /\ calc.dominant = << >>
    /\ calc' = [calc EXCEPT !.dominant = << getDominantColor(calc.returned[1]) >>]
    /\ UNCHANGED << elsewhere, pipeline >>

CalcNext ==
    \/ GetQualityLevel
    \/ CalculateQualityScore
    \/ Sample
    \/ ReturnPalette
    \/ GetDominantColor

SpecCalc == CalcInit /\ [][CalcNext]_vars

\* ------------------------------------------------ /api/images/[id]: GET, DELETE
\* The requests run side by side; each await of a handler is one step.  A
\* call to the store returns { data, error }: it may come back with an error
\* and without effect.
MaxRequests == 2   \* requests in flight
MaxClock == 1      \* the clock runs from 0 to MaxClock

Requests == 1..MaxRequests
ImageIds == { "uuid-a" }
Passwords == { << >>, << "pw" >> }                 \* image.password, <<>> unset
Headers == { << >>, << "pw" >>, << "no" >> }    \* x-image-password, <<>> null
Expiries == { << >>, << 0 >> }                     \* image.auto_delete_at

StoredImages ==
    [id : ImageIds, password : Passwords, auto_delete_at : Expiries,
     view_count : {0}, url : {"url"}, thumbnail_url : {"thumbnail_url"}]

\* The requests as they arrive.
Arrivals ==
    [method : {"GET"}, id : ImageIds, header : Headers]
        \cup [method : {"DELETE"}, id : ImageIds, header : { << >> }]

ImageInit ==
    /\ file = CHOOSE f \in Files : TRUE
    /\ options = CHOOSE o \in Options : TRUE
    /\ pc = "none"
    /\ error = "none"
    /\ fileId = ""
    /\ imageInfo = << >>
    /\ processedBuffer = << >>
    /\ processedImage = << >>
    /\ imageUrl = << >>
    /\ thumbnailUrl = << >>
    /\ metadata = << >>
    /\ metadataFailure = "none"
    /\ result = << >>
    /\ blobs = {}
    /\ rows = {}
    /\ response = << >>
    /\ stages = << >>
    /\ sharpCalls = << >>
    /\ puts = << >>
    /\ calc = [fn |-> "none"]
    /\ collector = << >>
    /\ page = << >>
    /\ clock = 0
    /\ \E present \in SUBSET StoredImages :
          /\ \A a, b \in present : a.id = b.id => a = b
          /\ images = [id \in ImageIds |->
                          IF \E a \in present : a.id = id
                          THEN << CHOOSE a \in present : a.id = id >>
                          ELSE << >>]
    /\ \E arrivals \in [Requests -> Arrivals] :
          requests = [r \in Requests |->
                         [method |-> arrivals[r].method,
                          id |-> arrivals[r].id,
                          header |-> arrivals[r].header,
                          pc |-> "select",
                          image |-> << >>,       \* data of the select
                          response |-> << >>,
                          \* what the request has done to the store
                          updated |-> FALSE, deleted |-> FALSE,
                          blobDeletion |-> "none",
                          \* when the select ran, and whether the row was there
                          selectedAt |-> 0, sawRow |-> FALSE]]

json(status, body) == << [status |-> status] @@ body >>

\* image.auto_delete_at && new Date(image.auto_delete_at) < new Date()
expired(image, now) ==
    image.auto_delete_at # << >> /\ image.auto_delete_at[1] < now

\* The password check that lets every request with a header through.
passwordRefused_anyHeader(image, providedPassword) ==
    image.password # << >> /\ providedPassword = << >>

\* image.password && (!providedPassword || providedPassword !== image.password)
passwordRefused(image, providedPassword) ==
    /\ image.password # << >> /\ image.password # << "" >>
    /\ \/ providedPassword = << >> \/ providedPassword = << "" >>
       \/ providedPassword # image.password

routeElsewhere == << collector, page, calc, pipeline >>

\* GET, lines 13-49: the select and what follows it up to the next await.
GET_select(r) ==
    LET req == requests[r] IN
    /\ req.method = "GET" /\ req.pc = "select"
    /\ \E ok \in BOOLEAN :
          LET data == IF ok THEN images[req.id] ELSE << >> IN
          IF data = << >>
          THEN requests' = [requests EXCEPT ![r].pc = "done", ![r].selectedAt = clock,
                  ![r].sawRow = images[req.id] # << >>,
                  ![r].response = json(404, [success |-> FALSE,
                                             error |-> "Image not found"])]
          ELSE IF expired(data[1], clock)
          THEN requests' = [requests EXCEPT ![r].pc = "deleteExpired",
                  ![r].selectedAt = clock, ![r].sawRow = TRUE, ![r].image = data]
          ELSE IF passwordRefused(data[1], req.header)
          THEN requests' = [requests EXCEPT ![r].pc = "done", ![r].image = data,
                  ![r].selectedAt = clock, ![r].sawRow = TRUE,
                  ![r].response = json(401, [success |-> FALSE,
                                             error |-> "Password required",
                                             requiresPassword |-> TRUE])]
          ELSE requests' = [requests EXCEPT ![r].pc = "update", ![r].image = data,
                  ![r].selectedAt = clock, ![r].sawRow = TRUE]
    /\ UNCHANGED << images, clock, routeElsewhere >>

\* GET, lines 29-37: the delete of an expired image; its result is not read.
GET_deleteExpired(r) ==
    LET req == requests[r] IN
    /\ req.method = "GET" /\ req.pc = "deleteExpired"
    /\ \E ok \in BOOLEAN :
          /\ images' = IF ok THEN [images EXCEPT ![req.id] = << >>] ELSE images
          /\ requests' = [requests EXCEPT ![r].pc = "done", ![r].deleted = ok,
                  ![r].response = json(410, [success |-> FALSE,
                                             error |-> "Image has expired"])]
    /\ UNCHANGED << clock, routeElsewhere >>

\* GET, lines 52-58: view_count of the row becomes that of the data that was
\* selected plus one; the result is not read.
GET_update(r) ==
    LET req == requests[r] IN
    /\ req.method = "GET" /\ req.pc = "update"
    /\ \E ok \in BOOLEAN :
          /\ images' = IF ok /\ images[req.id] # << >>
                       THEN [images EXCEPT ![req.id][1].view_count =
                                               req.image[1].view_count + 1]
                       ELSE images
          /\ requests' = [requests EXCEPT ![r].pc = "analytics",
                                          ![r].updated = ok]
    /\ UNCHANGED << clock, routeElsewhere >>

\* GET, lines 61-73: the analytics, whose failure is caught, and the answer.
GET_respond(r) ==
    LET req == requests[r] IN
    /\ req.method = "GET" /\ req.pc = "analytics"
    /\ requests' = [requests EXCEPT ![r].pc = "done",
            ![r].response = json(200, [success |-> TRUE, data |-> req.image[1]])]
    /\ UNCHANGED << images, clock, routeElsewhere >>

\* DELETE, lines 92-103.
DELETE_select(r) ==
    LET req == requests[r] IN
    /\ req.method = "DELETE" /\ req.pc = "select"
    /\ \E ok \in BOOLEAN :
          LET data == IF ok THEN images[req.id] ELSE << >> IN
          IF data = << >>
          THEN requests' = [requests EXCEPT ![r].pc = "done", ![r].selectedAt = clock,
                  ![r].sawRow = images[req.id] # << >>,
                  ![r].response = json(404, [success |-> FALSE,
                                             error |-> "Image not found"])]
          ELSE requests' = [requests EXCEPT ![r].pc = "delete",
                  ![r].selectedAt = clock, ![r].sawRow = TRUE,
                  ![r].image = << [url |-> data[1].url,
                                   thumbnail_url |-> data[1].thumbnail_url] >>]
    /\ UNCHANGED << images, clock, routeElsewhere >>

\* DELETE that answers 500 when the blob deletion fails.
DELETE_blob_failing(r) ==
    LET req == requests[r] IN
    /\ req.method = "DELETE" /\ req.pc = "deleteBlob"
    /\ \E ok \in BOOLEAN :
          requests' = [requests EXCEPT ![r].pc = "done",
              ![r].blobDeletion = IF ok THEN "done" ELSE "failed",
              ![r].response =
                  IF ok THEN json(200, [success |-> TRUE,
                                        message |-> "Image deleted successfully"])
                  ELSE json(500, [success |-> FALSE,
                                  error |-> "Internal server error"])]
    /\ UNCHANGED << images, clock, routeElsewhere >>

\* DELETE, lines 106-117.
DELETE_delete(r) ==
    LET req == requests[r] IN
    /\ req.method = "DELETE" /\ req.pc = "delete"
    /\ \E ok \in BOOLEAN :
          IF ok
          THEN /\ images' = [images EXCEPT ![req.id] = << >>]
               /\ requests' = [requests EXCEPT ![r].pc = "deleteBlob",
                                               ![r].deleted = TRUE]
          ELSE /\ images' = images
               /\ requests' = [requests EXCEPT ![r].pc = "done",
                       ![r].response = json(500, [success |-> FALSE,
                           error |-> "Failed to delete image from database"])]
    /\ UNCHANGED << clock, routeElsewhere >>

\* DELETE, lines 120-138: the fetch of delete-blob may throw, which is caught.
DELETE_blob(r) ==
    LET req == requests[r] IN
    /\ req.method = "DELETE" /\ req.pc = "deleteBlob"
    /\ \E ok \in BOOLEAN :
          requests' = [requests EXCEPT ![r].pc = "done",
              ![r].blobDeletion = IF ok THEN "done" ELSE "failed",
              ![r].response = json(200, [success |-> TRUE,
                                         message |-> "Image deleted successfully"])]
    /\ UNCHANGED << images, clock, routeElsewhere >>

\* Time passes.
Tick ==
    /\ clock < MaxClock
    /\ clock' = clock + 1
    /\ UNCHANGED << images, requests, routeElsewhere >>

ImageNext ==
    \/ \E r \in Requests : GET_select(r)
    \/ \E r \in Requests : GET_deleteExpired(r)
    \/ \E r \in Requests : GET_update(r)
    \/ \E r \in Requests : GET_respond(r)
    \/ \E r \in Requests : DELETE_select(r)
    \/ \E r \in Requests : DELETE_delete(r)
    \/ \E r \in Requests : DELETE_blob(r)
    \/ Tick

SpecImage == ImageInit /\ [][ImageNext]_vars

\* ------------------------------------------------------ AnalyticsCollector
\* One collector in a page: the listeners that its constructor has added,
\* and one call of collectAnalyticsData running between the events.
MaxEvents == 4     \* events that the page dispatches

CollectorInit ==
    /\ file = CHOOSE f \in Files : TRUE
    /\ options = CHOOSE o \in Options : TRUE
    /\ pc = "none"
    /\ error = "none"
    /\ fileId = ""
    /\ imageInfo = << >>
    /\ processedBuffer = << >>
    /\ processedImage = << >>
    /\ imageUrl = << >>
    /\ thumbnailUrl = << >>
    /\ metadata = << >>
    /\ metadataFailure = "none"
    /\ result = << >>
    /\ blobs = {}
    /\ rows = {}
    /\ response = << >>
    /\ stages = << >>
    /\ sharpCalls = << >>
    /\ puts = << >>
    /\ calc = [fn |-> "none"]
    /\ images = << >>
    /\ requests = << >>
    /\ clock = 0
    /\ page = << >>
    /\ collector = [interactionCount |-> 0, clickCount |-> 0,
                    startTime |-> 0, lastActivity |-> 0,
                    scrollTimeout |-> FALSE,   \* a timeout is pending
                    scroll_depth |-> FALSE,    \* sessionStorage has the item
                    hidden |-> FALSE,          \* document.hidden
                    now |-> 0,                 \* Date.now()
                    pc |-> "idle",             \* collectAnalyticsData
                    analyticsData |-> << >>,   \* what it returned
                    \* the events that were dispatched, by type
                    dispatched |-> [click |-> 0, keydown |-> 0, scroll |-> 0,
                                    visibilitychange |-> 0, beforeunload |-> 0]]

collectorElsewhere == << images, requests, clock, page, calc, pipeline >>

\* An event of the type is dispatched: time has passed.
dispatch(type) ==
    [collector EXCEPT !.now = @ + 1, !.dispatched[type] = @ + 1]

mayDispatch ==
    collector.dispatched.click + collector.dispatched.keydown
        + collector.dispatched.scroll + collector.dispatched.visibilitychange
        + collector.dispatched.beforeunload < MaxEvents

\* The click listener without this.interactionCount++.
click_noInteraction ==
    /\ mayDispatch
    /\ collector' = [dispatch("click") EXCEPT !.clickCount = @ + 1,
                                              !.lastActivity = collector.now + 1]
    /\ UNCHANGED collectorElsewhere

\* document.addEventListener('click', ...)
click ==
    /\ mayDispatch
    /\ collector' = [dispatch("click") EXCEPT !.clickCount = @ + 1,
                                              !.interactionCount = @ + 1,
                                              !.lastActivity = collector.now + 1]
    /\ UNCHANGED collectorElsewhere

\* document.addEventListener('keydown', ...)
keydown ==
    /\ mayDispatch
    /\ collector' = [dispatch("keydown") EXCEPT !.interactionCount = @ + 1,
                                                !.lastActivity = collector.now + 1]
    /\ UNCHANGED collectorElsewhere

\* window.addEventListener('scroll', ...): the pending timeout is cleared and
\* a new one is set.
scroll ==
    /\ mayDispatch
    /\ collector' = [dispatch("scroll") EXCEPT !.interactionCount = @ + 1,
                                               !.lastActivity = collector.now + 1,
                                               !.scrollTimeout = TRUE]
    /\ UNCHANGED collectorElsewhere

\* The timeout of the scroll listener fires: trackScrollDepth.
trackScrollDepth ==
    /\ collector.scrollTimeout
    /\ collector' = [collector EXCEPT !.scrollTimeout = FALSE,
                                      !.scroll_depth = TRUE]
    /\ UNCHANGED collectorElsewhere

\* document.addEventListener('visibilitychange', ...): the page is hidden or
\* shown; trackViewDuration only computes a number.
visibilitychange ==
    /\ mayDispatch
    /\ collector' =
          IF ~collector.hidden
          THEN [dispatch("visibilitychange") EXCEPT !.hidden = TRUE]
          ELSE [dispatch("visibilitychange") EXCEPT !.hidden = FALSE,
                                           !.lastActivity = collector.now + 1]
    /\ UNCHANGED collectorElsewhere

\* window.addEventListener('beforeunload', ...): trackViewDuration.
beforeunload ==
    /\ mayDispatch
    /\ collector' = dispatch("beforeunload")
    /\ UNCHANGED collectorElsewhere

\* collectAnalyticsData: await this.getNetworkInfo(), which catches.
collectAnalyticsData_network ==
    /\ collector.pc = "idle"
    /\ collector' = [collector EXCEPT !.pc = "device"]
    /\ UNCHANGED collectorElsewhere

\* collectAnalyticsData: await this.getDeviceFingerprint(), which may throw,
\* and the object that is built from the fields as they are then.
collectAnalyticsData_return ==
    /\ collector.pc = "device"
    /\ \/ collector' = [collector EXCEPT !.pc = "threw"]
       \/ collector' = [collector EXCEPT !.pc = "returned",
              !.analyticsData =
                  << [click_count |-> collector.clickCount,
                      interaction_count |-> collector.interactionCount,
                      view_duration |-> collector.now - collector.startTime,
                      session_duration |-> collector.now - collector.startTime,
                      last_activity |-> collector.lastActivity,
                      scroll_depth |-> collector.scroll_depth,
                      \* the events dispatched before the object was built
                      dispatched |-> collector.dispatched] >>]
    /\ UNCHANGED collectorElsewhere

CollectorNext ==
    \/ click
    \/ keydown
    \/ scroll
    \/ trackScrollDepth
    \/ visibilitychange
    \/ beforeunload
    \/ collectAnalyticsData_network
    \/ collectAnalyticsData_return

SpecCollector == CollectorInit /\ [][CollectorNext]_vars

\* ---------------------------------------------------------------- HomePage
\* The state of the page and one onDrop at a time: while isUploading the
\* dropzone takes no pointer events.  Each await of onDrop is one step.
MaxFiles == 3      \* accepted files of one drop
MaxDrops == 2      \* drops on the page

\* acceptedFiles: the files are told apart by their place in the drop.
Drops == { [j \in 1..n |-> << "file", j >>] : n \in 0..MaxFiles }

PageInit ==
    /\ file = CHOOSE f \in Files : TRUE
    /\ options = CHOOSE o \in Options : TRUE
    /\ pc = "none"
    /\ error = "none"
    /\ fileId = ""
    /\ imageInfo = << >>
    /\ processedBuffer = << >>
    /\ processedImage = << >>
    /\ imageUrl = << >>
    /\ thumbnailUrl = << >>
    /\ metadata = << >>
    /\ metadataFailure = "none"
    /\ result = << >>
    /\ blobs = {}
    /\ rows = {}
    /\ response = << >>
    /\ stages = << >>
    /\ sharpCalls = << >>
    /\ puts = << >>
    /\ calc = [fn |-> "none"]
    /\ images = << >>
    /\ requests = << >>
    /\ clock = 0
    /\ collector = << >>
    /\ page = [uploadedImages |-> << >>,
               uploadProgress |-> << >>,     \* <<>> is null
               isUploading |-> FALSE,
               timeouts |-> 0,               \* pending setTimeout callbacks
               pc |-> "idle",                \* where onDrop is waiting
               acceptedFiles |-> << >>,
               i |-> 0,
               processedImages |-> << >>,
               \* of the running or last drop: the files in the order their
               \* upload was started, how many responses were ok, the length
               \* of uploadedImages when it began; and the drops so far
               started |-> << >>, ok |-> 0, before |-> 0, drops |-> 0]

pageElsewhere == << images, requests, clock, collector, calc, pipeline >>

\* (loaded / total) * 100 as the fraction it is.
percentage(loaded, total) == [num |-> loaded * 100, den |-> total]

\* a.percentage <= b.percentage
notBelow(b, a) == a.num * b.den <= b.num * a.den

\* Lines 40-48: the top of the loop body for the file at index i (from 0),
\* up to the await of fetch.
startFile(p, i) ==
    [p EXCEPT !.i = i,
              !.uploadProgress = << [loaded |-> i,
                                     total |-> Len(p.acceptedFiles),
                                     percentage |-> percentage(i, Len(p.acceptedFiles)),
                                     status |-> "uploading"] >>,
              !.started = Append(@, p.acceptedFiles[i + 1]),
              !.pc = "fetch"]

\* Lines 82-94 and 105-107: after the loop.
finish(p) ==
    [p EXCEPT !.uploadedImages = @ \o p.processedImages,
              !.uploadProgress = << [loaded |-> Len(p.acceptedFiles),
                                     total |-> Len(p.acceptedFiles),
                                     percentage |-> [num |-> 100, den |-> 1],
                                     status |-> "completed"] >>,
              !.timeouts = @ + 1,
              !.isUploading = FALSE,
              !.pc = "idle"]

\* The loop goes on with the next file, or is over.
next(p) ==
    IF p.i + 1 < Len(p.acceptedFiles) THEN startFile(p, p.i + 1) ELSE finish(p)

\* Lines 26-48: onDrop up to its first await.
onDrop ==
    /\ page.pc = "idle" /\ ~page.isUploading
    /\ page.drops < MaxDrops
    /\ \E acceptedFiles \in Drops :
          IF Len(acceptedFiles) = 0
          THEN page' = [page EXCEPT !.drops = @ + 1]
          ELSE page' = startFile(
                  [page EXCEPT !.drops = @ + 1,
                               !.isUploading = TRUE,
                               !.acceptedFiles = acceptedFiles,
                               !.processedImages = << >>,
                               !.started = << >>, !.ok = 0,
                               !.before = Len(page.uploadedImages)], 0)
    /\ UNCHANGED pageElsewhere

\* fetch_response where a failed upload ends the loop.
fetch_response_abort ==
    /\ page.pc = "fetch"
    /\ \E outcome \in { "ok", "not ok", "threw" } :
          page' = IF outcome = "ok"
                  THEN [page EXCEPT !.pc = "json", !.ok = @ + 1]
                  ELSE finish(page)
    /\ UNCHANGED pageElsewhere

\* Lines 50-57 and 69-71: fetch has settled.  A response that is not ok and a
\* rejected fetch both end in the catch of the loop body.
fetch_response ==
    /\ page.pc = "fetch"
    /\ \E outcome \in { "ok", "not ok", "threw" } :
          page' = IF outcome = "ok"
                  THEN [page EXCEPT !.pc = "json", !.ok = @ + 1]
                  ELSE next(page)
    /\ UNCHANGED pageElsewhere

\* Lines 59-68: response.json() of an ok response has resolved.
json_resolved ==
    /\ page.pc = "json"
    /\ LET pushed == [page EXCEPT
               !.processedImages = Append(@, page.acceptedFiles[page.i + 1]),
               !.uploadProgress = << [loaded |-> page.i + 1,
                                      total |-> Len(page.acceptedFiles),
                                      percentage |-> percentage(page.i + 1,
                                                        Len(page.acceptedFiles)),
                                      status |-> "uploading"] >>]
       IN  page' = next(pushed)
    /\ UNCHANGED pageElsewhere

\* Lines 91-94: a timeout set at the end of a drop fires.
resetProgress ==
    /\ page.timeouts > 0
    /\ page' = [page EXCEPT !.timeouts = @ - 1, !.uploadProgress = << >>]
    /\ UNCHANGED pageElsewhere

PageNext ==
    \/ onDrop
    \/ fetch_response
    \/ json_resolved
    \/ resetProgress

SpecPage == PageInit /\ [][PageNext]_vars

\* ------------------------------------------------------------- properties
MiB32 == 32 * 1024 * 1024
AllowList == {"jpg", "jpeg", "png", "gif", "webp", "heic", "avif", "pdf"}

PutOk(pathname) ==
    \E i \in 1 .. Len(puts) : puts[i].pathname = pathname /\ puts[i].ok
PutFailed(pathname) ==
    \E i \in 1 .. Len(puts) : puts[i].pathname = pathname /\ ~puts[i].ok
Failed500 ==
    /\ pc = "done"
    /\ Len(response) = 1 /\ response[1].status = 500 /\ ~response[1].success

\* C1: when the publish of the primary artifact succeeds and the publish of
\* the thumbnail fails, the request ends in failure: processImage returns no
\* record, the response is a 500, and no row referencing the primary
\* artifact's address is inserted.
C1_ThumbnailPublishFailureFails ==
    (PutOk(filename) /\ PutFailed(thumbnailFilename)) =>
        /\ Failed500
        /\ error = "PublishError"
        /\ result = << >>
        /\ \A r \in rows : r.url # << blobUrl(filename) >>

C1_Witness ==
    /\ PutOk(filename) /\ PutFailed(thumbnailFilename)
    /\ pc = "done"
    /\ \E b \in blobs : b.pathname = filename

\* C2: a request that ended in failure because a publish or the insert failed
\* leaves no blob in object storage that no row references.
Referenced(b) ==
    \E r \in rows : r.url = << b.url >> \/ r.thumbnail_url = << b.url >>
C2_NoOrphanAfterFailure ==
    (pc = "done" /\ error \in {"PublishError", "DatabaseError"}) =>
        \A b \in blobs : Referenced(b)

\* C3: a file of more than 32 MiB, whatever its extension and MIME type, is
\* rejected with the payload-too-large error; sharp is never called and
\* nothing is put.
C3_TooLargeBeforeDecode ==
    file.size > MiB32 =>
        /\ pc \in {"validateFile", "done"}
        /\ pc = "done" => error = "PayloadTooLarge"
        /\ sharpCalls = << >>
        /\ puts = << >>
        /\ blobs = {}

C3_Witness ==
    /\ file.size > MiB32
    /\ pc = "done" /\ error = "PayloadTooLarge"
    /\ getFileExtension(file.name) \notin AllowList
    /\ file.type = << "text", "plain" >>

\* What the claims call the extension and an admissible MIME type.
ExtensionAllowed == getFileExtension(file.name) \in AllowList
MimeAllowed ==
    \/ Len(file.type) >= 2 /\ file.type[1] = "image"
    \/ file.type = << "application", "pdf" >>
Accepted == Len(stages) >= 2 /\ stages[2] = "Validated"

\* C4 as stated: every file whose extension is outside the allow-list, those
\* of more than 32 MiB included, is rejected with the unsupported-format error.
C4_UnsupportedWhateverSize ==
    (pc = "done" /\ ~ExtensionAllowed) => error = "UnsupportedFormat"

\* C4, amended: every file of at most 32 MiB whose extension is outside the
\* allow-list is rejected with the unsupported-format error, whatever its
\* MIME type, before sharp is called or anything is put; a larger one is
\* rejected with the payload-too-large error.
C4_UnsupportedWithinSize ==
    (pc # "validateFile" /\ ~ExtensionAllowed) =>
        /\ pc = "done"
        /\ error = IF file.size <= MiB32 THEN "UnsupportedFormat" ELSE "PayloadTooLarge"
        /\ sharpCalls = << >>
        /\ puts = << >>

C4_Witness ==
    /\ pc = "done" /\ error = "UnsupportedFormat"
    /\ file.name = << "photo", "exe" >>
    /\ file.size = MiB32
    /\ ~MimeAllowed

\* C5: validateFile accepts a file exactly when its size is at most 32 MiB, its
\* extension, compared without regard to case, is in the allow-list and its
\* MIME type starts with image/ or is application/pdf; a file that only fails
\* the MIME test is rejected with the type-mismatch error, and sharp is not
\* called nor anything put.
C5_AcceptsExactly ==
    pc # "validateFile" =>
        /\ Accepted <=> (file.size <= MiB32 /\ ExtensionAllowed /\ MimeAllowed)
        /\ (file.size <= MiB32 /\ ExtensionAllowed /\ ~MimeAllowed) =>
              /\ pc = "done" /\ error = "TypeMismatch"
              /\ sharpCalls = << >> /\ puts = << >> /\ blobs = {}

C5_Witness ==
    /\ Accepted
    /\ file.size = MiB32
    /\ file.name = << "photo", "v2", "PNG" >>
    /\ file.type = << "application", "pdf" >>
    /\ pc = "metadata"

\* C6: when a validated file cannot be decoded (a sharp call of
\* processImageFile rejects), processImage fails with the decode error; nothing
\* was put, no blob exists and no record is assembled.
DecodeFailed ==
    \E i \in 1 .. Len(sharpCalls) :
        sharpCalls[i].op \in {"metadata", "toBuffer", "thumbnail"} /\ ~sharpCalls[i].ok
C6_DecodeFailureBeforePublish ==
    DecodeFailed =>
        /\ Accepted
        /\ pc = "done" /\ error = "DecodeError"
        /\ puts = << >> /\ blobs = {}
        /\ result = << >> /\ rows = {}

C6_Witness ==
    /\ DecodeFailed /\ pc = "done"
    /\ sharpCalls = << [op |-> "metadata", ok |-> FALSE] >>

\* C7: when a step of extractMetadata fails, processImage still returns a
\* record: it has both addresses, published in object storage, and an empty
\* metadata bag; the request is not failed by it.
C7_MetadataFailureDegrades ==
    metadataFailure # "none" =>
        /\ pc \in {"assemble", "insert", "done"}
        /\ "Failed" \notin {stages[i] : i \in 1 .. Len(stages)}
        /\ error \in {"none", "DatabaseError", "ReferenceError"}
        /\ pc \in {"insert", "done"} =>
              /\ Len(result) = 1
              /\ DOMAIN result[1].image.metadata = {}
              /\ result[1].image.url = << blobUrl(filename) >>
              /\ result[1].image.thumbnail_url = << blobUrl(thumbnailFilename) >>
              /\ \E b \in blobs : b.url = blobUrl(filename)
              /\ \E b \in blobs : b.url = blobUrl(thumbnailFilename)

C7_Witness ==
    /\ metadataFailure = "raw"
    /\ pc = "insert"
    /\ Len(result) = 1

\* The stages that were completed, in order.
Pos(stage) == CHOOSE i \in 1 .. Len(stages) : stages[i] = stage
InOrder(seq) ==
    /\ \A i \in 1 .. Len(seq) : \E k \in 1 .. Len(stages) : stages[k] = seq[i]
    /\ \A i, j \in 1 .. Len(seq) : i < j => Pos(seq[i]) < Pos(seq[j])

\* C8 as stated: in a successful invocation metadata extraction is completed
\* before the first publish.
C8_MetadataBeforePublish ==
    Len(result) = 1 =>
        InOrder(<< "Received", "Validated", "Decoded", "Transformed",
                   "MetadataExtracted", "PrimaryPublished", "ThumbnailPublished",
                   "Assembled" >>)

\* C8, amended: in every successful invocation the stages occur in the order
\* Received, Validated, Decoded, Transformed, Published, MetadataExtracted,
\* Assembled: both publishes are completed before metadata extraction, and
\* nothing is put before the transform and the thumbnail are done.
C8_PublishBeforeMetadata ==
    /\ Len(result) = 1 =>
          stages = << "Received", "Validated", "Decoded", "Transformed",
                      "ThumbnailCreated", "PrimaryPublished", "ThumbnailPublished",
                      "MetadataExtracted", "Assembled" >>
    /\ Len(metadata) = 1 => PutOk(filename) /\ PutOk(thumbnailFilename)
    /\ Len(puts) > 0 => Len(processedImage) = 1

C8_Witness ==
    /\ pc = "insert"
    /\ Len(result) = 1
    /\ metadataFailure = "none"

\* C9: once validation, decode, transform or a publish has failed the
\* invocation is over: no sharp call, put, blob, row, stage or record is added
\* afterwards; and no path name is put twice.
PipelineErrors ==
    {"PayloadTooLarge", "UnsupportedFormat", "TypeMismatch", "DecodeError", "PublishError"}
C9_FailedIsTerminal ==
    /\ [][ (error \in PipelineErrors) =>
               (UNCHANGED << stages, sharpCalls, puts, blobs, rows, result, metadata >>) ]_vars
    /\ [](error \in PipelineErrors => pc = "done" /\ result = << >> /\ rows = {})
    /\ [](\A i, j \in 1 .. Len(puts) : puts[i].pathname = puts[j].pathname => i = j)
    /\ [](PutFailed(filename) \/ PutFailed(thumbnailFilename) => error = "PublishError")

C9_Witness ==
    /\ error = "PublishError"
    /\ puts = << [pathname |-> filename, ok |-> FALSE] >>
    /\ pc = "done"

\* C10: the primary artifact is at most max_width wide and max_height high
\* (for each that is given), never larger than the upload in either
\* dimension, and has the upload's aspect ratio to within one pixel; when
\* neither is given it is not resized.
C10_ResizeWithinBounds ==
    Len(processedBuffer) = 1 =>
        LET a == processedBuffer[1]
            w == imageInfo[1].width
            h == imageInfo[1].height
        IN  /\ options.max_width > 0 => a.width <= options.max_width
            /\ options.max_height > 0 => a.height <= options.max_height
            /\ a.width <= w /\ a.height <= h
            /\ a.width >= 1 /\ a.height >= 1
            /\ \/ Abs(a.height * w - a.width * h) < w
               \/ Abs(a.width * h - a.height * w) < h
            /\ (options.max_width = 0 /\ options.max_height = 0) =>
                  ~a.resized /\ a.width = w /\ a.height = h

C10_Witness ==
    /\ Len(processedBuffer) = 1
    /\ imageInfo[1].width = 3 /\ imageInfo[1].height = 2
    /\ options.max_width = 2 /\ options.max_height = 2
    /\ processedBuffer[1].width = 2 /\ processedBuffer[1].height = 1

\* C11 as stated: the width and height of the record that processImage returns
\* are those of the primary artifact that was published.
C11_RecordHasPrimaryDimensions ==
    Len(result) = 1 =>
        \A b \in blobs :
            b.pathname = result[1].image.filename =>
                /\ result[1].image.width = b.body.width
                /\ result[1].image.height = b.body.height

\* C12: whatever the options, the thumbnail is cut from the raster of the
\* upload, is 300 x 300 webp at quality 80, is recorded as 300 x 300, and is
\* what is published under the thumbnail's name.
C12_ThumbnailFixed ==
    Len(processedImage) = 1 =>
        LET t == processedImage[1].thumbnail[1]
        IN  /\ Len(processedImage[1].thumbnail) = 1
            /\ t.width = 300 /\ t.height = 300
            /\ t.format = "webp" /\ t.quality = 80
            /\ t.of = [width |-> imageInfo[1].width, height |-> imageInfo[1].height]
            /\ processedImage[1].thumbnailWidth = 300
            /\ processedImage[1].thumbnailHeight = 300
            /\ \A b \in blobs : b.pathname = thumbnailFilename => b.body = t
            /\ Len(result) = 1 =>
                  /\ Len(result[1].thumbnail) = 1
                  /\ result[1].thumbnail[1].width = 300
                  /\ result[1].thumbnail[1].height = 300

C12_Witness ==
    /\ Len(result) = 1
    /\ options.max_width = 1 /\ options.quality = 25
    /\ options.convert_to_webp = "false"
    /\ imageInfo[1].width = 3 /\ imageInfo[1].height = 2
    /\ processedImage[1].buffer.width = 1
    /\ result[1].thumbnail[1].width = 300

\* C17: the record that processImage returns has the identifier drawn for this
\* invocation, zero view and download counts, auto_delete_at equal to the time
\* of assembly plus auto_delete_minutes minutes when that is given and absent
\* when it is not, and is_public true when is_public is not given.
C17_RecordDefaults ==
    Len(result) = 1 =>
        LET r == result[1].image
        IN  /\ r.id = fileId /\ fileId \in FileIds
            /\ r.view_count = 0 /\ r.download_count = 0
            /\ r.created_at \in Times
            /\ options.auto_delete_minutes > 0 =>
                  r.auto_delete_at =
                      << r.created_at + options.auto_delete_minutes * 60000 >>
            /\ options.auto_delete_minutes = 0 => r.auto_delete_at = << >>
            /\ options.is_public = "undefined" => r.is_public = "true"
            /\ options.is_public # "undefined" => r.is_public = options.is_public

C17_Witness ==
    /\ Len(result) = 1
    /\ options.auto_delete_minutes = 5
    /\ options.is_public = "undefined"
    /\ result[1].image.auto_delete_at = << 301000 >>

\* C20 as stated: where the metadata of the assembled record was extracted, its
\* is_animated is true for an upload of more than one frame and false for one
\* of a single frame.
C20_AnimatedFlagThreaded ==
    Len(result) = 1 =>
        LET md == result[1].image.metadata
        IN  "is_animated" \in DOMAIN md =>
                (md.is_animated <=> imageInfo[1].pages > 1)

\* C13 as stated: for a requested quality q in 0..100 the tier is 60 when
\* q <= 30, 80 when 30 < q <= 70, 90 when 70 < q <= 90, 100 when q > 90, and
\* 80 when no quality is requested.
C13_QualityTiers ==
    (calc.fn = "getQualityLevel" /\ calc.returned # << >>) =>
        calc.returned[1] =
            IF calc.quality = << >> THEN 80
            ELSE IF calc.quality[1] <= 30 THEN 60
            ELSE IF calc.quality[1] <= 70 THEN 80
            ELSE IF calc.quality[1] <= 90 THEN 90
            ELSE 100

\* C14: the quality score is 100, less 20 if the width is known and below 800
\* or the height is known and below 600, less 15 if the density is known and
\* below 72, less 10 if the size is known and below 50000 bytes, and is an
\* integer from 0 to 100 whatever is known.
C14_QualityScore ==
    (calc.fn = "calculateQualityScore" /\ calc.returned # << >>) =>
        LET md == calc.metadata
            known(x) == x # undefined /\ x # 0
            lowRes == \/ md.width # undefined /\ md.width < 800
                      \/ md.height # undefined /\ md.height < 600
            lowDensity == known(md.density) /\ md.density < 72
            small == known(md.size) /\ md.size < 50000
            score == 100 - (IF lowRes THEN 20 ELSE 0)
                         - (IF lowDensity THEN 15 ELSE 0)
                         - (IF small THEN 10 ELSE 0)
        IN  /\ calc.returned[1] = score
            /\ calc.returned[1] \in 0..100

C14_Witness ==
    /\ calc.fn = "calculateQualityScore"
    /\ calc.metadata.width = undefined /\ calc.metadata.height = 599
    /\ calc.metadata.density = 71 /\ calc.metadata.size = 49999
    /\ calc.returned = << 55 >>

LowerHex == { "0", "1", "2", "3", "4", "5", "6", "7", "8", "9",
              "a", "b", "c", "d", "e", "f" }

\* The value of a hex digit, and of the two digits of a string from place k.
digitValue(ch) == CHOOSE v \in 0..15 : HexDigits[v + 1] = ch
byteAt(str, k) == 16 * digitValue(str[k]) + digitValue(str[k + 1])

\* The place of the colour that a palette entry spells among the colours in
\* the order in which the loop first came to them; 0 if it is none of them.
placeOf(str) ==
    LET rgb == << byteAt(str, 2), byteAt(str, 4), byteAt(str, 6) >>
    IN  IF \E k \in DOMAIN calc.seen : calc.seen[k] = rgb
        THEN CHOOSE k \in DOMAIN calc.seen : calc.seen[k] = rgb
        ELSE 0

\* C15: extractColorPalette returns at most 10 entries, each '#' and six
\* lowercase hex digits, no two the same, each a colour that was sampled, in
\* order of non-increasing sample frequency, and colours of equal frequency in
\* the order in which they were first encountered.
C15_PaletteShape ==
    (calc.fn = "extractColorPalette" /\ calc.returned # << >>) =>
        LET p == calc.returned[1]
        IN  /\ Len(p) <= 10
            /\ \A k \in DOMAIN p :
                  /\ Len(p[k]) = 7
                  /\ p[k][1] = "#"
                  /\ \A j \in 2..7 : p[k][j] \in LowerHex
                  /\ placeOf(p[k]) # 0
            /\ \A k, m \in DOMAIN p : k # m => p[k] # p[m]
            /\ \A k, m \in DOMAIN p :
                  k < m =>
                      \/ calc.freq[placeOf(p[k])] > calc.freq[placeOf(p[m])]
                      \/ /\ calc.freq[placeOf(p[k])] = calc.freq[placeOf(p[m])]
                         /\ placeOf(p[k]) < placeOf(p[m])

\* More than ten colours were sampled, and a colour that came later but more
\* often stands before the ones that came before it.
C15_Witness ==
    /\ calc.fn = "extractColorPalette"
    /\ calc.returned # << >>
    /\ Len(calc.seen) = 11
    /\ Len(calc.returned[1]) = 10
    /\ calc.freq[2] = 2
    /\ placeOf(calc.returned[1][1]) = 2
    /\ placeOf(calc.returned[1][2]) = 1

\* C16: the dominant colour is the first entry of the palette when there is
\* one and '#000000' when there is none; when every pixel that was read has
\* alpha below 128 the palette is empty and the dominant colour is '#000000'.
C16_DominantColor ==
    (calc.fn = "extractColorPalette" /\ calc.dominant # << >>) =>
        LET p == calc.returned[1]
        IN  /\ p # << >> => calc.dominant[1] = p[1]
            /\ p = << >> => calc.dominant[1] = << "#", "0", "0", "0", "0", "0", "0" >>
            /\ calc.seen = << >> =>
                  /\ p = << >>
                  /\ calc.dominant[1] = << "#", "0", "0", "0", "0", "0", "0" >>

C16_Witness ==
    /\ calc.fn = "extractColorPalette"
    /\ calc.sampled = 3
    /\ calc.seen = << >>
    /\ calc.returned = << << >> >>
    /\ calc.dominant = << << "#", "0", "0", "0", "0", "0", "0" >> >>

\* C21 as stated: in the assembled records the size of the primary record is
\* the byte length of the primary artifact that was published, and the size of
\* the thumbnail record is the byte length of the published thumbnail.
C21_SizesAreArtifactLengths ==
    Len(result) = 1 =>
        /\ \A b \in blobs :
              b.pathname = result[1].image.filename =>
                  result[1].image.size = b.body.length
        /\ \A b \in blobs :
              b.pathname = thumbnailFilename =>
                  result[1].thumbnail[1].size = b.body.length

\* The GET and DELETE requests, and the answer of one that has answered.
Gets == { r \in Requests : requests[r].method = "GET" }
Deletes == { r \in Requests : requests[r].method = "DELETE" }
answered(r) == requests[r].response # << >>
status(r) == requests[r].response[1].status

\* C22: a GET that found an image with a password set, not expired, answers
\* with the image data only when the x-image-password header equals the stored
\* password; otherwise it answers 401 with requiresPassword and no data, and
\* has not written view_count.
C22_PasswordGate ==
    \A r \in Gets :
        LET q == requests[r] IN
        (/\ q.image # << >>
         /\ q.image[1].password # << >>
         /\ ~expired(q.image[1], clock)) =>
            IF q.header = q.image[1].password
            THEN answered(r) =>
                    /\ status(r) = 200
                    /\ q.response[1].data = q.image[1]
            ELSE /\ q.pc = "done" /\ answered(r)
                 /\ status(r) = 401
                 /\ q.response[1].requiresPassword
                 /\ "data" \notin DOMAIN q.response[1]
                 /\ ~q.updated

C22_Witness ==
    \E r, o \in Gets :
        /\ requests[r].image # << >>
        /\ requests[r].image[1].password = << "pw" >>
        /\ requests[r].header = << "no" >>
        /\ answered(r) /\ status(r) = 401
        /\ requests[o].header = << "pw" >>
        /\ answered(o) /\ status(o) = 200

\* C23 as stated: a GET that found the image expired answers 410 without the
\* data and without writing view_count, whatever the password, and the record
\* is gone, so that a GET that selects when it is gone answers 404.
C23_ExpiredIsDeleted ==
    \A r \in Gets :
        LET q == requests[r] IN
        (q.image # << >> /\ expired(q.image[1], q.selectedAt) /\ answered(r)) =>
            /\ status(r) = 410
            /\ "data" \notin DOMAIN q.response[1]
            /\ ~q.updated
            /\ images[q.id] = << >>
            /\ \A g \in Gets :
                  (requests[g].pc # "select" /\ ~requests[g].sawRow) =>
                      status(g) = 404

\* C24 as stated: when every request is a GET of an image without a password
\* and without an expiry whose view_count was 0, each has answered with
\* success and the store has taken each one's update, the stored view_count
\* is the number of the requests.
C24_NoLostIncrement ==
    (/\ Gets = Requests
     /\ \A r \in Requests :
           /\ answered(r) /\ status(r) = 200 /\ requests[r].updated
           /\ requests[r].image[1].password = << >>
           /\ requests[r].image[1].auto_delete_at = << >>) =>
        \A id \in ImageIds :
            images[id] # << >> => images[id][1].view_count = Cardinality(Requests)

\* C28: a DELETE that found the image and whose delete of the record went
\* through answers success, with the blob deletion done or failed, and the
\* record is gone; a request that selects when there is no record answers
\* 404 and writes nothing; a DELETE whose delete of the record failed answers
\* 500 and has not tried the blob deletion.
C28_DeleteOutcomes ==
    /\ \A r \in Deletes :
          LET q == requests[r] IN
          /\ q.deleted => images[q.id] = << >>
          /\ (q.deleted /\ q.pc = "done") =>
                /\ status(r) = 200 /\ q.response[1].success
                /\ q.blobDeletion \in { "done", "failed" }
          /\ (q.image # << >> /\ ~q.deleted /\ q.pc = "done") =>
                /\ status(r) = 500
                /\ q.blobDeletion = "none"
          /\ (answered(r) /\ status(r) = 200) => q.deleted
    /\ \A r \in Requests :
          LET q == requests[r] IN
          (q.pc # "select" /\ ~q.sawRow) =>
              /\ q.pc = "done" /\ status(r) = 404
              /\ ~q.deleted /\ ~q.updated /\ q.blobDeletion = "none"

C28_Witness ==
    \E d \in Deletes, g \in Gets :
        /\ requests[d].pc = "done" /\ status(d) = 200
        /\ requests[d].blobDeletion = "failed"
        /\ requests[g].pc = "done" /\ ~requests[g].sawRow
        /\ status(g) = 404

\* C25 as stated: when processImage has returned and the insert has put the
\* row into the table, POST answers with success = true and the inserted row
\* as data; it answers 500 only when processing threw or the insert failed.
C25_UploadAnswersSuccess ==
    Len(response) = 1 =>
        /\ (Len(result) = 1 /\ rows # {}) =>
              /\ response[1].status = 200
              /\ response[1].success
              /\ response[1].data \in rows
        /\ response[1].status = 500 => (Len(result) = 0 \/ rows = {})

\* C27 as stated: the primary artifact is published as image/webp under the
\* extension webp whenever convert_to_webp is not false, its bytes being webp,
\* and under the declared type and the extension of the upload only when the
\* conversion is disabled.
C27_PublishedAsWhatItIs ==
    \A b \in blobs :
        b.pathname = filename =>
            IF options.convert_to_webp # "false"
            THEN /\ b.body.format = "webp"
                 /\ b.contentType = << "image", "webp" >>
                 /\ b.pathname[Len(b.pathname)] = "webp"
            ELSE /\ b.body.format = "input"
                 /\ b.contentType = file.type
                 /\ b.pathname[Len(b.pathname)] = getFileExtension(file.name)

\* C26 as stated: whatever the channel count of the raster, a sample that is
\* counted is read where a pixel begins, at every 10th pixel; it is discarded
\* exactly when the raster has an alpha channel and the alpha of that pixel is
\* below 128; and its four bytes are inside the buffer.
C26_SamplesArePixels ==
    (calc.fn = "extractColorPalette" /\ calc.last # << >>) =>
        LET s == calc.last[1]
            hasAlpha == calc.channels = 4
        IN  /\ s.at % calc.channels = 0
            /\ (s.at \div calc.channels) % 10 = 0
            /\ ~s.counted <=> (hasAlpha /\ s.a < 128)
            /\ s.at + 3 < calc.length

\* C29: in an AnalyticsCollector clickCount is the number of click events,
\* interactionCount the number of click, keydown and scroll events, so
\* clickCount <= interactionCount; neither counter ever decreases; and what
\* collectAnalyticsData reports are the counters as they were when it built
\* its object.
C29_Counters ==
    /\ [](/\ collector.clickCount = collector.dispatched.click
          /\ collector.interactionCount =
                 collector.dispatched.click + collector.dispatched.keydown
                     + collector.dispatched.scroll
          /\ collector.clickCount <= collector.interactionCount
          /\ collector.analyticsData # << >> =>
                LET d == collector.analyticsData[1] IN
                /\ d.click_count = d.dispatched.click
                /\ d.interaction_count =
                       d.dispatched.click + d.dispatched.keydown
                           + d.dispatched.scroll)
    /\ [][/\ collector'.clickCount >= collector.clickCount
          /\ collector'.interactionCount >= collector.interactionCount]_vars

C29_Witness ==
    /\ collector # << >>
    /\ collector.dispatched = [click |-> 1, keydown |-> 1, scroll |-> 1,
                               visibilitychange |-> 1, beforeunload |-> 0]
    /\ collector.analyticsData # << >>
    /\ collector.analyticsData[1].click_count = 1
    /\ collector.analyticsData[1].interaction_count = 2
    /\ collector.interactionCount = 3

====
